---- MODULE Spec2Model ----
(***************************************************************************)
(* Model of backend/app/services/voice_service.py: the VoiceService        *)
(* profile store (create / exists / info / delete), the verification       *)
(* decision (verify_voice and the fallback MockVoiceVerifier) and the      *)
(* audio normaliser (process_web_audio).                                   *)
(*                                                                         *)
(* Files are modelled by what torchaudio.load would return for them: a     *)
(* record with the kind of the file ("audio", "garbage", "missing"), the   *)
(* channel count ch, the frame count n, the sample rate sr and sig, an     *)
(* abstraction of the samples (which recording it is).  Durations are not  *)
(* floats: duration < d is n < d * sr.  Scores and thresholds are fixed    *)
(* point numbers, ScoreOne standing for 1.0.  Spec runs the calls one at a *)
(* time; SpecConc lets a second worker act while torchaudio.save of an     *)
(* enrolment is writing the profile file; SpecLoad starts before           *)
(* VoiceService.__init__ and follows _load_model; SpecFlow follows one     *)
(* student through the calls the endpoints make with uploads               *)
(* (create_voice_profile_from_upload, verify_voice_from_upload) and        *)
(* through mark_attendance of api/v1/endpoints/student.py.  SpecAttend     *)
(* splits mark_attendance at its verification, so that requests of two     *)
(* workers and deactivate_session interleave; SpecFiles follows the files  *)
(* under AUDIO_UPLOAD_DIR (save_uploaded_audio, cleanup_temp_files);       *)
(* SpecAttempts counts the loading and decoding attempts; SpecEntry runs   *)
(* the upload entry points of api/v1/endpoints/voice.py and student.py     *)
(* with a declared content type; SpecMock applies the two functions of     *)
(* MockVoiceVerifier to fingerprints and files.  File operations succeed:  *)
(* a write that raises midway is not modelled.                             *)
(***************************************************************************)
EXTENDS Integers, Sequences, FiniteSets, TLC

\* ------------------------------------------------------------------ bounds
NumStudents == 2

StudentIds == {"S" \o ToString(i) : i \in 1..NumStudents}
Voices == {1, 2}

\* --------------------------------------------------------------- constants
TARGET_SR == 16000
MIN_VERIFY_SECONDS == 2
MIN_ENROLL_SECONDS == 3
PLACEHOLDER_SECONDS == 10
PAD_SECONDS == 2
ScoreOne == 100 * 1000
DEFAULT_THRESHOLD == (6 * ScoreOne) \div 10
MOCK_THRESHOLD == (6 * ScoreOne) \div 10
MAX_VARIATION == (5 * ScoreOne) \div 100
ToneSig == 0

Max(a, b) == IF a > b THEN a ELSE b
Min(a, b) == IF a < b THEN a ELSE b
Abs(a) == IF a < 0 THEN 0 - a ELSE a
CeilDiv(a, b) == (a + b - 1) \div b
RECURSIVE GCD(_, _)
GCD(a, b) == IF b = 0 THEN a ELSE GCD(b, a % b)

\* ------------------------------------------------------------------- files
File(kind, ch, n, sr, sig, partial) ==
    [kind |-> kind, ch |-> ch, n |-> n, sr |-> sr, sig |-> sig, partial |-> partial]

Missing == File("missing", 0, 0, 0, 0, FALSE)
Garbage == File("garbage", 0, 0, 0, 0, FALSE)
Audio(ch, n, sr, sig) == File("audio", ch, n, sr, sig, FALSE)

\* torchaudio.load(path): raises unless the file is there and decodable
torchaudio_load_raises(c) == c.kind # "audio"
\* torchaudio.load(path): (waveform, sr); waveform.shape = (ch, n)
torchaudio_load(c) == [ch |-> c.ch, n |-> c.n, sr |-> c.sr, sig |-> c.sig]
\* torchaudio.save(path, waveform, sr): the complete file
torchaudio_save(w, sr) == Audio(w.ch, w.n, sr, w.sig)

\* duration = waveform.shape[1] / sr ; duration < seconds
DurationBelow(w, seconds) == w.n < seconds * w.sr

\* f"{duration:.1f}" : the duration in tenths of a second, rounded
FormatDuration1(w) == (2 * 10 * w.n + w.sr) \div (2 * w.sr)

\* recordings the callers hold outside the profile directory
InputAudio ==
    { Audio(1, 8000, 8000, 1),        \* 1.0 s
      Audio(1, 32000, 16000, 1),      \* 2.0 s exactly
      Audio(1, 47999, 16000, 2),      \* one frame short of 3.0 s
      Audio(1, 48000, 16000, 1),      \* 3.0 s exactly
      Audio(2, 24000, 8000, 2) }      \* 3.0 s stereo at 8 kHz
    \cup { Audio(1, 320000, 16000, v) : v \in Voices }   \* 20 s enrolment
ZeroChannel == Audio(0, 80000, 16000, 1)
EnrollFiles == InputAudio \cup {Missing, Garbage}

\* --------------------------------------------------------------- variables
VARIABLES
    fs,         \* the profile directory: path -> file
    verifier,   \* self.verifier: "SpeakerRecognition" | "MockVoiceVerifier" | "None"
    enrolled,   \* history: per identity, the file handed to its last successful enrol
    wr,         \* a create_voice_profile whose torchaudio.save is in progress
    last,       \* the last completed call: operation, arguments, result
    constructed,\* VoiceService.__init__ has returned
    records,    \* attendance_records of the session: student -> the statuses
                \* of the student's rows, in the order they were added
    session_active, \* attendance_sessions.is_active of the session
    pending,    \* mark_attendance requests between their checks and their commit
    upl         \* the regular files directly under AUDIO_UPLOAD_DIR that no
                \* running call holds the path of: name -> age in hours, -1
                \* when there is no file of that name

vars == <<fs, verifier, enrolled, wr, last, constructed, records, session_active,
          pending, upl>>

\* the workers that serve requests side by side
Workers == {1, 2}
NoRequest == [busy |-> FALSE, id |-> "", status |-> "", is_match |-> FALSE,
              score |-> 0, msg |-> ""]
\* ages a file under AUDIO_UPLOAD_DIR can have, in hours; older files count
\* as MaxAge
MaxAge == 3
\* names under AUDIO_UPLOAD_DIR: the <uuid4>.wav of process_web_audio, the
\* <uuid4>.wav of save_uploaded_audio and a filename argument of it
ProcessedName == "uuid4-p.wav"
SavedName == "uuid4-s.wav"
UploadNames == {ProcessedName, SavedName, "profiles_old.wav"}
NoUploads == [f \in UploadNames |-> -1]
\* the files of `left` appear in the directory with age 0
leave(u, left) == [f \in UploadNames |-> IF f \in left THEN 0 ELSE u[f]]

Idle == [busy |-> FALSE, id |-> "", src |-> Missing]

\* None as a fingerprint; f are the scalar features of a fingerprint, finite
\* tells whether all of them are finite numbers
NoneFp == [ok |-> FALSE, f |-> [k \in {} |-> 0], finite |-> TRUE]

NoCall ==
    [op |-> "init", id |-> "", ok |-> FALSE, score |-> 0, is_match |-> FALSE,
     msg |-> "", dur |-> 0, called |-> FALSE, thr |-> 0, prediction |-> FALSE,
     ref |-> Missing, test |-> Missing, out |-> Missing, path |-> "",
     before |-> Missing, bscore |-> 0, again |-> "no",
     tried |-> << >>, readable |-> {}, len |-> 0, placeholder |-> FALSE,
     fault |-> FALSE, raised |-> FALSE, defaulted |-> FALSE, status |-> "",
     lazy |-> FALSE, rows |-> 0, active |-> FALSE, temps |-> {}, left |-> {},
     ctype |-> "", processed |-> FALSE, age |-> 0, finite |-> TRUE,
     listing |-> [f \in {} |-> 0], fp1 |-> NoneFp, fp2 |-> NoneFp,
     variation |-> 0]

\* ---------------------------------------------------------- profile store
get_profile_path_shared(student_id) == "profiles/_profile.wav"
get_profile_path(student_id) == "profiles/" \o student_id \o "_profile.wav"

os_path_exists(path) == path \in DOMAIN fs
FileAt(path) == IF path \in DOMAIN fs THEN fs[path] ELSE Missing
WriteFile(path, c) == [p \in DOMAIN fs \cup {path} |-> IF p = path THEN c ELSE fs[p]]
os_unlink(path) == [p \in DOMAIN fs \ {path} |-> fs[p]]

validate_audio_file_no_duration(c) ==
    IF torchaudio_load_raises(c) THEN FALSE
    ELSE IF torchaudio_load(c).ch = 0 THEN FALSE
    ELSE TRUE
validate_audio_file(c) ==
    IF torchaudio_load_raises(c) THEN FALSE
    ELSE IF torchaudio_load(c).ch = 0 THEN FALSE
    ELSE IF DurationBelow(torchaudio_load(c), MIN_VERIFY_SECONDS) THEN FALSE
    ELSE TRUE

enroll_too_short_as_verify(w) == DurationBelow(w, MIN_VERIFY_SECONDS)
enroll_too_short(w) == DurationBelow(w, MIN_ENROLL_SECONDS)

\* create_voice_profile(audio_file_path, student_id), c the file at
\* audio_file_path: the result and the profile directory afterwards
create_voice_profile(c, student_id) ==
    IF c.kind = "missing"
    THEN [ok |-> FALSE, msg |-> "Audio file not found", dur |-> 0, path |-> "", fs |-> fs]
    ELSE IF torchaudio_load_raises(c)
    THEN [ok |-> FALSE, msg |-> "Failed to load audio file", dur |-> 0, path |-> "", fs |-> fs]
    ELSE IF enroll_too_short(torchaudio_load(c))
    THEN [ok |-> FALSE, msg |-> "Audio too short: %.1fs (minimum 3s required)",
          dur |-> FormatDuration1(torchaudio_load(c)), path |-> "", fs |-> fs]
    ELSE [ok |-> TRUE, msg |-> "", dur |-> 0, path |-> get_profile_path(student_id),
          fs |-> WriteFile(get_profile_path(student_id),
                           torchaudio_save(torchaudio_load(c), torchaudio_load(c).sr))]

profile_exists_no_validation(student_id) ==
    os_path_exists(get_profile_path(student_id))
profile_exists(student_id) ==
    os_path_exists(get_profile_path(student_id))
        /\ validate_audio_file(FileAt(get_profile_path(student_id)))

delete_profile_always_true(student_id) ==
    [ok |-> TRUE, fs |-> os_unlink(get_profile_path(student_id))]
delete_profile_keeps_file(student_id) ==
    IF os_path_exists(get_profile_path(student_id))
    THEN [ok |-> TRUE, fs |-> fs]
    ELSE [ok |-> FALSE, fs |-> fs]
delete_profile(student_id) ==
    IF os_path_exists(get_profile_path(student_id))
    THEN [ok |-> TRUE, fs |-> os_unlink(get_profile_path(student_id))]
    ELSE [ok |-> FALSE, fs |-> fs]

\* get_profile_info(student_id): "exists", "duration" (tenths), and whether
\* the result carries "error"
get_profile_info(student_id) ==
    IF ~os_path_exists(get_profile_path(student_id))
    THEN [exists |-> FALSE, error |-> FALSE, dur |-> 0]
    ELSE IF torchaudio_load_raises(FileAt(get_profile_path(student_id)))
    THEN [exists |-> FALSE, error |-> TRUE, dur |-> 0]
    ELSE [exists |-> TRUE, error |-> FALSE,
          dur |-> FormatDuration1(torchaudio_load(FileAt(get_profile_path(student_id))))]

\* ------------------------------------------------- fallback verifier (mock)

\* the scalar features of a recording, as integers in units of their rounding
\* precision: mean, std, zcr, pitch_strength 1e-6; energy, energy_variance
\* 1e-8; energy_skewness 1e-4
SigFeatures(sig) ==
    [mean |-> 10 * sig, std |-> 70000 + 9000 * sig, energy |-> 500000 * (sig + 1),
     zcr |-> 55000 + 400 * sig, energy_variance |-> 1000 * sig,
     energy_skewness |-> 3000 * sig, pitch_strength |-> 1000000 * (sig + 1)]

\* torch.nn.functional.conv1d(waveform.unsqueeze(0),
\*     waveform.flip(1).unsqueeze(0).unsqueeze(0), padding=n-1):
\* the input is 3-D (1, 1, n), the weight is 4-D (1, 1, 1, n); conv1d
\* rejects a weight whose rank differs from the input's and raises.
conv1d_accepts(w) == FALSE
conv1d_raises(w) == TRUE

\* a waveform whose samples are all equal (silence, a constant)
SilentSig == 9
\* chunks = waveform.unfold(1, chunk_size, chunk_size // 2) with
\* chunk_size = sr // 10: unfold raises for a step of 0 and for a size above
\* the length, else it gives (n - size) // step + 1 chunks
chunk_size(w) == w.sr \div 10
unfold_raises(w) == chunk_size(w) \div 2 = 0 \/ chunk_size(w) > w.n
chunk_count(w) == (w.n - chunk_size(w)) \div (chunk_size(w) \div 2) + 1
\* torch.var and torch.std of the chunk energies are NaN for a single chunk,
\* and (e - mean) / std is 0/0 = NaN when all chunks have the same energy;
\* the other features are finite for a waveform that has samples
features_finite(w) == chunk_count(w) >= 2 /\ w.sig # SilentSig

\* get_detailed_fingerprint(file_path): every exception gives None; zcr
\* divides by 2 * waveform.shape[1]
get_detailed_fingerprint(c) ==
    IF torchaudio_load_raises(c) THEN NoneFp
    ELSE IF torchaudio_load(c).n = 0 THEN NoneFp
    ELSE IF unfold_raises(torchaudio_load(c)) THEN NoneFp
    ELSE IF conv1d_raises(torchaudio_load(c)) THEN NoneFp
    ELSE [ok |-> TRUE, f |-> SigFeatures(torchaudio_load(c).sig),
          finite |-> features_finite(torchaudio_load(c))]

\* (feature, weight in percent, similarity lost per unit of difference)
features ==
    << [name |-> "mean", weight |-> 15, loss |-> 10],
       [name |-> "std", weight |-> 15, loss |-> 5],
       [name |-> "energy", weight |-> 20, loss |-> 10],
       [name |-> "zcr", weight |-> 20, loss |-> 100],
       [name |-> "energy_variance", weight |-> 15, loss |-> 1],
       [name |-> "energy_skewness", weight |-> 10, loss |-> 100],
       [name |-> "pitch_strength", weight |-> 5, loss |-> 10] >>

RECURSIVE WeightedSum(_, _, _)
WeightedSum(k, fp1, fp2) ==
    IF k = 0 THEN 0
    ELSE LET ft == features[k]
             diff == Abs(fp1.f[ft.name] - fp2.f[ft.name])
             similarity == Max(0, ScoreOne - diff * ft.loss)
         IN  WeightedSum(k - 1, fp1, fp2) + similarity * ft.weight

RECURSIVE TotalWeight(_)
TotalWeight(k) == IF k = 0 THEN 0 ELSE TotalWeight(k - 1) + features[k].weight

base_similarity(fp1, fp2) ==
    WeightedSum(Len(features), fp1, fp2) \div TotalWeight(Len(features))

calculate_speaker_similarity_unclamped(fp1, fp2, variation) ==
    IF ~fp1.ok \/ ~fp2.ok THEN 0
    ELSE base_similarity(fp1, fp2) + variation
calculate_speaker_similarity_fail_open(fp1, fp2, variation) ==
    IF ~fp1.ok \/ ~fp2.ok THEN ScoreOne
    ELSE Max(0, Min(ScoreOne, base_similarity(fp1, fp2) + variation))
calculate_speaker_similarity(fp1, fp2, variation) ==
    IF ~fp1.ok \/ ~fp2.ok THEN 0
    ELSE Max(0, Min(ScoreOne, base_similarity(fp1, fp2) + variation))

\* MockVoiceVerifier.verify_files(ref_file, test_file): (score, prediction).
\* rnd.failed: an exception reached the except clause of verify_files;
\* rnd.value: what random.uniform returns, the variation of the similarity
\* in the try block, the score in the except clause.  caught tells the model
\* which of the two returns was taken, the caller cannot see it.
mock_verify_files(refC, testC, rnd) ==
    IF rnd.failed
    THEN [raised |-> FALSE, caught |-> TRUE, score |-> rnd.value, prediction |-> FALSE]
    ELSE LET similarity == calculate_speaker_similarity(
                               get_detailed_fingerprint(refC),
                               get_detailed_fingerprint(testC), rnd.value)
         IN  [raised |-> FALSE, caught |-> FALSE, score |-> similarity,
              prediction |-> similarity > MOCK_THRESHOLD]

Variations == {0 - MAX_VARIATION, 0, MAX_VARIATION}
\* random.uniform(0.1, 0.4) of the except clause
ExceptScores == {ScoreOne \div 10, (4 * ScoreOne) \div 10}
Random(failed, value) == [failed |-> failed, value |-> value]

\* SpeakerRecognition.verify_files: what the embedding model may answer
PrimaryScores == {0 - (2 * ScoreOne) \div 10, DEFAULT_THRESHOLD,
                  DEFAULT_THRESHOLD + 1, (13 * ScoreOne) \div 10}
PrimaryOutcomes ==
    { [raised |-> FALSE, caught |-> FALSE, score |-> s, prediction |-> p] :
          s \in PrimaryScores, p \in BOOLEAN }
    \cup { [raised |-> TRUE, caught |-> FALSE, score |-> 0, prediction |-> FALSE] }

\* ---------------------------------------------------- verification decision
Thresholds == {0 - ScoreOne \div 10, 0, DEFAULT_THRESHOLD}

is_same_speaker_or_equal(similarity_score, threshold) == similarity_score >= threshold
is_same_speaker(similarity_score, threshold) == similarity_score > threshold

\* verify_voice(reference_file, test_file, threshold); be is what
\* self.verifier.verify_files answers if it is called
verify_voice(v, refC, testC, threshold, be) ==
    IF v = "None"
    THEN [score |-> 0, is_match |-> FALSE,
          msg |-> "Voice recognition model could not be loaded", called |-> FALSE]
    ELSE IF ~validate_audio_file(refC)
    THEN [score |-> 0, is_match |-> FALSE, msg |-> "Invalid reference audio file",
          called |-> FALSE]
    ELSE IF ~validate_audio_file(testC)
    THEN [score |-> 0, is_match |-> FALSE, msg |-> "Invalid test audio file",
          called |-> FALSE]
    ELSE IF be.raised
    THEN [score |-> 0, is_match |-> FALSE, msg |-> "Verification error", called |-> TRUE]
    ELSE [score |-> be.score, is_match |-> is_same_speaker(be.score, threshold),
          msg |-> IF is_same_speaker(be.score, threshold)
                  THEN "Voice verified successfully" ELSE "Voice verification failed",
          called |-> TRUE]

\* --------------------------------------------------------- audio normaliser
\* an upload: its size in bytes, the suffixes under which a decoder reads
\* it, and the audio those decoders return
Blob(len, readable, w) == [len |-> len, readable |-> readable, w |-> w]
Wave(ch, n, sr, sig) == [ch |-> ch, n |-> n, sr |-> sr, sig |-> sig]
NoWave == Wave(0, 0, 0, 0)

Uploads ==
    { Blob(0, {}, NoWave),                                              \* empty
      Blob(7, {}, NoWave),                                              \* no decoder reads it
      Blob(9000, {".webm", ".ogg"}, Wave(2, 220500, 44100, 1)),         \* 5 s stereo
      Blob(9000, {".webm", ".wav", ".ogg"}, Wave(1, 16000, 16000, 2)),  \* 1 s
      Blob(9000, {".wav"}, Wave(1, 31999, 16000, 1)),                   \* a frame short of 2 s
      Blob(9000, {".ogg"}, Wave(1, 11025, 11025, 2)),                   \* 1 s at 11.025 kHz
      Blob(9000, {".mp3", ".m4a"}, Wave(1, 24000, 8000, 1)),            \* 3 s at 8 kHz
      Blob(9000, {".m4a"}, Wave(1, 0, 16000, 1)) }                      \* no frames

decoders == <<".webm", ".wav", ".ogg", ".mp3", ".m4a">>

\* the suffixes tried from the k-th attempt on: Method 1 (.webm), on its
\* failure Method 2 (.wav), on its failure the loop over .ogg, .mp3, .m4a,
\* which breaks at the first success
RECURSIVE try_decoders_all(_, _)
try_decoders_all(blob, k) ==
    IF k > Len(decoders) THEN << >>
    ELSE <<decoders[k]>> \o try_decoders_all(blob, k + 1)
RECURSIVE try_decoders_twice(_, _)
try_decoders_twice(blob, k) ==
    IF k > Len(decoders) THEN << >>
    ELSE IF decoders[k] \in blob.readable THEN <<decoders[k]>>
    ELSE <<decoders[k], decoders[k]>> \o try_decoders_twice(blob, k + 1)
RECURSIVE try_decoders(_, _)
try_decoders(blob, k) ==
    IF k > Len(decoders) THEN << >>
    ELSE IF decoders[k] \in blob.readable THEN <<decoders[k]>>
    ELSE <<decoders[k]>> \o try_decoders(blob, k + 1)

\* tempfile.NamedTemporaryFile(suffix=..., delete=False) of the attempts from
\* the k-th on: t.disk are the temporary files on disk, named by their
\* suffix, t.path is temp_input_path ("" for None). An attempt unlinks
\* temp_input_path if it is set and exists, then writes its own file
NoTemp == [path |-> "", disk |-> {}]
RECURSIVE attempt_files_kept(_, _, _)
attempt_files_kept(blob, k, t) ==
    IF k > Len(decoders) THEN t
    ELSE LET written == [path |-> decoders[k], disk |-> t.disk \cup {decoders[k]}]
         IN  IF decoders[k] \in blob.readable THEN written
             ELSE attempt_files_kept(blob, k + 1, written)
RECURSIVE attempt_files(_, _, _)
attempt_files(blob, k, t) ==
    IF k > Len(decoders) THEN t
    ELSE LET unlinked == IF t.path # "" /\ t.path \in t.disk
                         THEN t.disk \ {t.path} ELSE t.disk
             written == [path |-> decoders[k], disk |-> unlinked \cup {decoders[k]}]
         IN  IF decoders[k] \in blob.readable THEN written
             ELSE attempt_files(blob, k + 1, written)
\* "Cleanup temp file" before the return and in the except clause: the
\* temporary files still on disk afterwards
cleanup_temp_input(t) ==
    IF t.path # "" /\ t.path \in t.disk THEN t.disk \ {t.path} ELSE t.disk

\* the decoding attempt that set waveform, 0 if waveform is still None
first_decoder(blob) ==
    LET t == try_decoders(blob, 1) IN
    IF t # << >> /\ t[Len(t)] \in blob.readable THEN Len(t) ELSE 0

\* torch.linspace(0, 10, int(target_sr * 10)): the test tone
placeholder_tone == Wave(1, TARGET_SR * PLACEHOLDER_SECONDS, TARGET_SR, ToneSig)

\* torchaudio.transforms.Resample(sr, target_sr)(waveform): the frames of the
\* result; the variable sr keeps its value
\* (both rates are divided by their gcd first: ceil(new * n / orig))
resample(w) ==
    IF w.sr # TARGET_SR
    THEN [w EXCEPT !.n = CeilDiv(w.n * (TARGET_SR \div GCD(w.sr, TARGET_SR)),
                                 w.sr \div GCD(w.sr, TARGET_SR))]
    ELSE w

to_mono(w) == IF w.ch > 1 THEN [w EXCEPT !.ch = 1] ELSE w

min_samples == PAD_SECONDS * TARGET_SR
pad_never(w) == w
pad(w) == IF w.n < min_samples THEN [w EXCEPT !.n = w.n + (min_samples - w.n)] ELSE w

\* process_web_audio(audio_file): raises on an empty upload, else the file
\* written to the upload directory; decoded is the audio before resampling
\* tried are the decoding attempts made, placeholder whether the test tone
\* replaced the upload
process_web_audio_no_empty_check(blob) ==
    LET k == first_decoder(blob)
        decoded == IF k = 0 THEN placeholder_tone ELSE blob.w
    IN  [raised |-> FALSE,
         out |-> torchaudio_save(pad(to_mono(resample(decoded))), TARGET_SR),
         decoded |-> decoded, attempt |-> k,
         tried |-> try_decoders(blob, 1), placeholder |-> (k = 0),
         msg |-> "", temps |-> cleanup_temp_input(attempt_files(blob, 1, NoTemp))]
process_web_audio(blob) ==
    IF blob.len = 0
    THEN [raised |-> TRUE, out |-> Missing, decoded |-> NoWave, attempt |-> 0,
          tried |-> << >>, placeholder |-> FALSE, msg |-> "Empty audio data received",
          temps |-> cleanup_temp_input(NoTemp)]
    ELSE LET k == first_decoder(blob)
             decoded == IF k = 0 THEN placeholder_tone ELSE blob.w
         IN  [raised |-> FALSE,
              out |-> torchaudio_save(pad(to_mono(resample(decoded))), TARGET_SR),
              decoded |-> decoded, attempt |-> k,
              tried |-> try_decoders(blob, 1), placeholder |-> (k = 0),
              msg |-> "", temps |-> cleanup_temp_input(attempt_files(blob, 1, NoTemp))]

\* ------------------------------------------------------------ model loading
\* loading_strategies of _load_model, in the order of the list
loading_strategies ==
    <<"_load_with_custom_cache", "_load_with_temp_dir", "_load_default",
      "_load_from_local">>
\* what the environment allows: the strategies that would load the model
Environments == SUBSET {loading_strategies[k] : k \in 1..Len(loading_strategies)}

\* the strategies the for loop calls from the k-th on; it returns at the
\* first that does not raise
RECURSIVE try_strategies_all(_, _)
try_strategies_all(works, k) ==
    IF k > Len(loading_strategies) THEN << >>
    ELSE <<loading_strategies[k]>> \o try_strategies_all(works, k + 1)
RECURSIVE try_strategies(_, _)
try_strategies(works, k) ==
    IF k > Len(loading_strategies) THEN << >>
    ELSE IF loading_strategies[k] \in works THEN <<loading_strategies[k]>>
    ELSE <<loading_strategies[k]>> \o try_strategies(works, k + 1)

\* _load_model: self.verifier and the strategies called
load_model_no_fallback(works) ==
    LET t == try_strategies(works, 1) IN
    [verifier |-> IF t[Len(t)] \in works THEN "SpeakerRecognition" ELSE "None",
     tried |-> t]
load_model(works) ==
    LET t == try_strategies(works, 1) IN
    [verifier |-> IF t[Len(t)] \in works THEN "SpeakerRecognition"
                  ELSE "MockVoiceVerifier",
     tried |-> t]

\* ------------------------------------------------------------------- state
\* the module-level voice_service = VoiceService() has been constructed
Init ==
    /\ fs = [p \in {} |-> Missing]
    /\ verifier \in {load_model(works).verifier : works \in Environments}
    /\ enrolled = [i \in StudentIds |-> Missing]
    /\ wr = Idle
    /\ last = NoCall
    /\ constructed = TRUE
    /\ records = [i \in StudentIds |-> << >>]
    /\ session_active = TRUE
    /\ pending = [w \in Workers |-> NoRequest]
    /\ upl = NoUploads

\* VoiceService.__init__ is about to run
InitLoad ==
    /\ fs = [p \in {} |-> Missing]
    /\ verifier = "None"
    /\ enrolled = [i \in StudentIds |-> Missing]
    /\ wr = Idle
    /\ last = NoCall
    /\ constructed = FALSE
    /\ records = [i \in StudentIds |-> << >>]
    /\ session_active = TRUE
    /\ pending = [w \in Workers |-> NoRequest]
    /\ upl = NoUploads

\* VoiceService.__init__: self.verifier = None, then self._load_model()
Construct(works) ==
    /\ ~constructed
    /\ LET r == load_model(works) IN
        /\ verifier' = r.verifier
        /\ last' = [NoCall EXCEPT !.op = "__init__", !.tried = r.tried,
                        !.readable = works]
    /\ constructed' = TRUE
    /\ UNCHANGED <<fs, enrolled, wr, records, session_active, pending, upl>>

CreateVoiceProfile(student_id, c) ==
    /\ ~wr.busy
    /\ LET r == create_voice_profile(c, student_id) IN
        /\ fs' = r.fs
        /\ enrolled' = IF r.ok THEN [enrolled EXCEPT ![student_id] = c] ELSE enrolled
        /\ last' = [NoCall EXCEPT !.op = "create_voice_profile", !.id = student_id,
                        !.ok = r.ok, !.msg = r.msg, !.dur = r.dur, !.path = r.path,
                        !.test = c, !.before = FileAt(get_profile_path(student_id))]
    /\ UNCHANGED <<verifier, wr, constructed, records, session_active, pending, upl>>

ProfileExists(student_id) ==
    /\ last' = [NoCall EXCEPT !.op = "profile_exists", !.id = student_id,
                    !.ok = profile_exists(student_id),
                    !.ref = FileAt(get_profile_path(student_id))]
    /\ UNCHANGED <<fs, verifier, enrolled, wr, constructed, records, session_active, pending, upl>>

GetProfileInfo(student_id) ==
    /\ LET r == get_profile_info(student_id) IN
        last' = [NoCall EXCEPT !.op = "get_profile_info", !.id = student_id,
                    !.ok = r.exists, !.dur = r.dur,
                    !.msg = IF r.error THEN "error" ELSE "",
                    !.ref = FileAt(get_profile_path(student_id))]
    /\ UNCHANGED <<fs, verifier, enrolled, wr, constructed, records, session_active, pending, upl>>

DeleteProfile(student_id) ==
    /\ ~(wr.busy /\ wr.id = student_id)
    /\ LET r == delete_profile(student_id) IN
        /\ fs' = r.fs
        /\ last' = [NoCall EXCEPT !.op = "delete_profile", !.id = student_id,
                        !.ok = r.ok, !.before = FileAt(get_profile_path(student_id)),
                        !.again = IF last.op = "delete_profile" /\ last.id = student_id
                                  THEN (IF last.ok THEN "after_true" ELSE "after_false")
                                  ELSE "no"]
    /\ enrolled' = [enrolled EXCEPT ![student_id] = Missing]
    /\ UNCHANGED <<verifier, wr, constructed, records, session_active, pending, upl>>

RefFiles == {Missing, Audio(1, 8000, 8000, 1), Audio(1, 320000, 16000, 1)}
TestFiles == {Missing, Garbage, ZeroChannel, Audio(1, 8000, 8000, 1),
              Audio(1, 32000, 16000, 1)}
ReferenceChoices == RefFiles \cup {FileAt(get_profile_path(i)) : i \in StudentIds}

\* self.verifier after the lazy-load step of verify_voice
LoadedVerifier(loaded) == IF verifier = "None" THEN loaded ELSE verifier

\* the outcomes of _load_model, of the embedding model and of random.uniform
\* that the call can depend on
LoadChoices ==
    IF verifier = "None" THEN {load_model(works).verifier : works \in Environments}
    ELSE {verifier}
BackendReached(refC, testC) == validate_audio_file(refC) /\ validate_audio_file(testC)
PrimaryChoices(v, refC, testC) ==
    IF v = "SpeakerRecognition" /\ BackendReached(refC, testC)
    THEN PrimaryOutcomes
    ELSE {[raised |-> FALSE, caught |-> FALSE, score |-> 0, prediction |-> FALSE]}
VariationChoices(v, refC, testC) ==
    IF v = "MockVoiceVerifier" /\ BackendReached(refC, testC)
    THEN {Random(FALSE, x) : x \in Variations} \cup {Random(TRUE, x) : x \in ExceptScores}
    ELSE {Random(FALSE, 0)}

backend_verify_files(v, refC, testC, po, rnd) ==
    IF v = "MockVoiceVerifier" THEN mock_verify_files(refC, testC, rnd) ELSE po

VerifyVoice(refC, testC, threshold, po, rnd, loaded) ==
    /\ verifier' = LoadedVerifier(loaded)
    /\ LET be == backend_verify_files(verifier', refC, testC, po, rnd)
           r == verify_voice(verifier', refC, testC, threshold, be)
       IN  last' = [NoCall EXCEPT !.op = "verify_voice", !.score = r.score,
                        !.lazy = (verifier = "None"),
                        !.is_match = r.is_match, !.msg = r.msg, !.called = r.called,
                        !.thr = threshold, !.ref = refC, !.test = testC,
                        !.prediction = be.prediction, !.ok = ~be.raised,
                        !.bscore = be.score,
                        !.fault = (r.called /\ (be.raised \/ be.caught))]
    /\ UNCHANGED <<fs, enrolled, wr, constructed, records, session_active, pending, upl>>

ProcessWebAudio(blob) ==
    /\ LET r == process_web_audio(blob) IN
        last' = [NoCall EXCEPT !.op = "process_web_audio", !.ok = ~r.raised,
                    !.out = r.out, !.dur = r.attempt, !.raised = r.raised,
                    !.tried = r.tried, !.readable = blob.readable, !.len = blob.len,
                    !.placeholder = r.placeholder, !.msg = r.msg, !.temps = r.temps,
                    !.test = Audio(r.decoded.ch, r.decoded.n, r.decoded.sr, r.decoded.sig)]
    /\ UNCHANGED <<fs, verifier, enrolled, wr, constructed, records, session_active, pending, upl>>

\* ------------------------------------------------------- calls with uploads
\* threshold: float = 0.6 of verify_voice and of verify_voice_from_upload:
\* the value a call without a threshold argument runs with, v the backend
\* that is active
default_threshold_per_backend(v) ==
    IF v = "MockVoiceVerifier" THEN (25 * ScoreOne) \div 100 ELSE DEFAULT_THRESHOLD
default_threshold(v) == DEFAULT_THRESHOLD

\* "if os.path.exists(path): os.unlink(path)" of the two upload functions on
\* the directory listing dir
unlink_processed_never(dir, path) == dir
unlink_processed(dir, path) == IF path \in dir THEN dir \ {path} ELSE dir

\* create_voice_profile_from_upload(audio_file, student_id): (success, result)
\* as [ok, msg / path]; placeholder and processed are not part of the result
create_voice_profile_from_upload(blob, student_id) ==
    LET p == process_web_audio(blob) IN
    IF p.raised
    THEN [ok |-> FALSE, msg |-> p.msg, dur |-> 0, path |-> "", fs |-> fs,
          raised |-> FALSE, placeholder |-> FALSE, processed |-> Missing,
          left |-> {}, tried |-> p.tried]
    ELSE LET r == create_voice_profile(p.out, student_id) IN
         [ok |-> r.ok, msg |-> r.msg, dur |-> r.dur, path |-> r.path, fs |-> r.fs,
          raised |-> FALSE, placeholder |-> p.placeholder, processed |-> p.out,
          left |-> unlink_processed({ProcessedName}, ProcessedName),
          tried |-> p.tried]

\* verify_voice_from_upload(reference_file, audio_file, threshold):
\* (score, is_match, message); the other fields are not part of the result
verify_voice_from_upload(v, refC, blob, threshold, po, rnd) ==
    LET p == process_web_audio(blob) IN
    IF p.raised
    THEN [score |-> 0, is_match |-> FALSE, msg |-> "Upload verification error",
          called |-> FALSE, raised |-> FALSE, placeholder |-> FALSE,
          processed |-> Missing, fault |-> FALSE, bscore |-> 0, left |-> {},
          tried |-> p.tried]
    ELSE LET be == backend_verify_files(v, refC, p.out, po, rnd)
             r == verify_voice(v, refC, p.out, threshold, be)
         IN  [score |-> r.score, is_match |-> r.is_match, msg |-> r.msg,
              called |-> r.called, raised |-> FALSE, placeholder |-> p.placeholder,
              processed |-> p.out, fault |-> (r.called /\ (be.raised \/ be.caught)),
              bscore |-> be.score,
              left |-> unlink_processed({ProcessedName}, ProcessedName),
              tried |-> p.tried]

\* what the caller of the two upload functions gets back
EnrollResult(r) == [ok |-> r.ok, msg |-> r.msg, path |-> r.path]
VerifyResult(r) == [score |-> r.score, is_match |-> r.is_match, msg |-> r.msg]

CreateVoiceProfileFromUpload(student_id, blob) ==
    /\ ~wr.busy
    /\ LET r == create_voice_profile_from_upload(blob, student_id) IN
        /\ fs' = r.fs
        /\ enrolled' = IF r.ok THEN [enrolled EXCEPT ![student_id] = r.processed]
                       ELSE enrolled
        /\ last' = [NoCall EXCEPT !.op = "create_voice_profile_from_upload",
                        !.id = student_id, !.ok = r.ok, !.msg = r.msg, !.dur = r.dur,
                        !.path = r.path, !.test = r.processed, !.raised = r.raised,
                        !.placeholder = r.placeholder, !.len = blob.len,
                        !.readable = blob.readable, !.left = r.left,
                        !.tried = r.tried,
                        !.before = FileAt(get_profile_path(student_id))]
        /\ upl' = leave(upl, r.left)
    /\ UNCHANGED <<verifier, wr, constructed, records, session_active, pending>>

\* a threshold argument, or none
ThresholdArg(given, value) == [given |-> given, value |-> value]
applied_threshold(v, arg) == IF arg.given THEN arg.value ELSE default_threshold(v)

UploadOutcomeReached(refC, blob) ==
    /\ ~process_web_audio(blob).raised
    /\ BackendReached(refC, process_web_audio(blob).out)
\* the embedding model at its best: it raises, or it scores above 0.6 only
\* two recordings of the same sound
SameVoice(refC, testC) == refC.sig = testC.sig
UploadPrimaryChoices(v, refC, blob) ==
    IF v = "SpeakerRecognition" /\ UploadOutcomeReached(refC, blob)
    THEN {o \in PrimaryOutcomes :
            \/ o.raised
            \/ /\ o.score \in {DEFAULT_THRESHOLD, DEFAULT_THRESHOLD + 1}
               /\ o.prediction = (o.score > DEFAULT_THRESHOLD)
               /\ o.score > DEFAULT_THRESHOLD
                    => SameVoice(refC, process_web_audio(blob).out)}
    ELSE {[raised |-> FALSE, caught |-> FALSE, score |-> 0, prediction |-> FALSE]}
UploadVariationChoices(v, refC, blob) ==
    IF v = "MockVoiceVerifier" /\ UploadOutcomeReached(refC, blob)
    THEN {Random(FALSE, 0), Random(TRUE, ScoreOne \div 10)}
    ELSE {Random(FALSE, 0)}

VerifyVoiceFromUpload(refC, blob, arg, po, rnd) ==
    /\ LET threshold == applied_threshold(verifier, arg)
           r == verify_voice_from_upload(verifier, refC, blob, threshold, po, rnd)
       IN  /\ last' = [NoCall EXCEPT !.op = "verify_voice_from_upload",
                        !.score = r.score, !.is_match = r.is_match, !.msg = r.msg,
                        !.called = r.called, !.thr = threshold,
                        !.defaulted = ~arg.given, !.ref = refC, !.test = r.processed,
                        !.raised = r.raised, !.placeholder = r.placeholder,
                        !.len = blob.len, !.readable = blob.readable, !.left = r.left,
                        !.tried = r.tried,
                        !.fault = r.fault, !.bscore = r.bscore, !.ok = ~r.fault]
           /\ upl' = leave(upl, r.left)
    /\ UNCHANGED <<fs, verifier, enrolled, wr, constructed, records, session_active, pending>>

\* existing_record of mark_attendance: a row of the student for the session
existing_record_if_present(student_id) ==
    \E k \in 1..Len(records[student_id]) : records[student_id][k] = "present"
existing_record(student_id) == records[student_id] # << >>

\* POST /student/mark-attendance of a student for the session; status is the
\* status of the row added, "" when the request is answered with an error
MarkAttendance(student_id, blob, po, rnd) ==
    /\ IF ~session_active
       THEN /\ last' = [NoCall EXCEPT !.op = "mark_attendance", !.id = student_id,
                            !.msg = "Session is not active"]
            /\ UNCHANGED <<records, upl>>
       ELSE IF existing_record(student_id)
       THEN /\ last' = [NoCall EXCEPT !.op = "mark_attendance", !.id = student_id,
                            !.msg = "Attendance already marked for this session"]
            /\ UNCHANGED <<records, upl>>
       ELSE IF ~profile_exists(student_id)
       THEN /\ last' = [NoCall EXCEPT !.op = "mark_attendance", !.id = student_id,
                            !.msg = "Voice profile not found. Please enroll first."]
            /\ UNCHANGED <<records, upl>>
       ELSE LET reference_file == FileAt(get_profile_path(student_id))
                r == verify_voice_from_upload(verifier, reference_file, blob,
                                              default_threshold(verifier), po, rnd)
                attendance_status == IF r.is_match THEN "present" ELSE "absent"
            IN  /\ records' = [records EXCEPT
                                  ![student_id] = Append(@, attendance_status)]
                /\ upl' = leave(upl, r.left)
                /\ last' = [NoCall EXCEPT !.op = "mark_attendance", !.id = student_id,
                                !.ok = r.is_match, !.status = attendance_status,
                                !.score = r.score, !.is_match = r.is_match,
                                !.msg = r.msg, !.called = r.called,
                                !.thr = default_threshold(verifier),
                                !.defaulted = TRUE, !.ref = reference_file,
                                !.test = r.processed, !.placeholder = r.placeholder,
                                !.len = blob.len, !.readable = blob.readable,
                                !.fault = r.fault, !.bscore = r.bscore]
    /\ UNCHANGED <<fs, verifier, enrolled, wr, constructed, session_active, pending>>

\* mark_attendance on worker w from its first query to the return of
\* verify_voice_from_upload: the request is answered with an error, or it is
\* left holding the status it is going to record
MarkAttendanceCheck(w, student_id, blob, po, rnd) ==
    /\ ~pending[w].busy
    /\ IF ~session_active
       THEN /\ last' = [NoCall EXCEPT !.op = "mark_attendance", !.id = student_id,
                            !.rows = Len(records[student_id]),
                            !.msg = "Session is not active"]
            /\ UNCHANGED <<pending, upl>>
       ELSE IF existing_record(student_id)
       THEN /\ last' = [NoCall EXCEPT !.op = "mark_attendance", !.id = student_id,
                            !.rows = Len(records[student_id]), !.active = TRUE,
                            !.msg = "Attendance already marked for this session"]
            /\ UNCHANGED <<pending, upl>>
       ELSE IF ~profile_exists(student_id)
       THEN /\ last' = [NoCall EXCEPT !.op = "mark_attendance", !.id = student_id,
                            !.active = TRUE,
                            !.msg = "Voice profile not found. Please enroll first."]
            /\ UNCHANGED <<pending, upl>>
       ELSE LET reference_file == FileAt(get_profile_path(student_id))
                r == verify_voice_from_upload(verifier, reference_file, blob,
                                              default_threshold(verifier), po, rnd)
            IN  /\ pending' = [pending EXCEPT ![w] =
                                  [busy |-> TRUE, id |-> student_id,
                                   status |-> IF r.is_match THEN "present" ELSE "absent",
                                   is_match |-> r.is_match, score |-> r.score,
                                   msg |-> r.msg]]
                /\ upl' = leave(upl, r.left)
                /\ last' = [NoCall EXCEPT !.op = "verify_voice_from_upload",
                                !.score = r.score, !.is_match = r.is_match,
                                !.msg = r.msg, !.called = r.called,
                                !.thr = default_threshold(verifier),
                                !.defaulted = TRUE, !.ref = reference_file,
                                !.test = r.processed, !.placeholder = r.placeholder,
                                !.len = blob.len, !.readable = blob.readable,
                                !.fault = r.fault, !.bscore = r.bscore, !.ok = ~r.fault]
    /\ UNCHANGED <<fs, verifier, enrolled, wr, constructed, records, session_active>>

\* mark_attendance on worker w from AttendanceRecord(...) to the response:
\* db.add, db.commit
MarkAttendanceCommit(w) ==
    /\ pending[w].busy
    /\ records' = [records EXCEPT ![pending[w].id] = Append(@, pending[w].status)]
    /\ pending' = [pending EXCEPT ![w] = NoRequest]
    /\ last' = [NoCall EXCEPT !.op = "mark_attendance", !.id = pending[w].id,
                    !.ok = pending[w].is_match, !.status = pending[w].status,
                    !.score = pending[w].score, !.is_match = pending[w].is_match,
                    !.msg = pending[w].msg, !.called = TRUE,
                    !.rows = Len(records[pending[w].id]), !.active = session_active]
    /\ UNCHANGED <<fs, verifier, enrolled, wr, constructed, session_active, upl>>

\* attendance_service.deactivate_session of the session by its admin
DeactivateSession ==
    /\ session_active' = FALSE
    /\ last' = [NoCall EXCEPT !.op = "deactivate_session", !.ok = TRUE]
    /\ UNCHANGED <<fs, verifier, enrolled, wr, constructed, records, pending, upl>>

\* ------------------------------------------- enrolment as other calls see it
\* torchaudio.save(profile_path, waveform, sr) opens profile_path itself for
\* writing and fills it: what a reader of that path can find before the call
\* completes
partial_writes(c) ==
    { File("garbage", 0, 0, 0, 0, TRUE),
      File("audio", c.ch, c.n \div 2, c.sr, c.sig, TRUE) }

EnrollBegin(student_id, c, p) ==
    /\ ~wr.busy
    /\ create_voice_profile(c, student_id).ok
    /\ p \in partial_writes(torchaudio_save(torchaudio_load(c), torchaudio_load(c).sr))
    /\ fs' = WriteFile(get_profile_path(student_id), p)
    /\ wr' = [busy |-> TRUE, id |-> student_id, src |-> c]
    /\ UNCHANGED <<verifier, enrolled, last, constructed, records, session_active, pending, upl>>

EnrollFinish ==
    /\ wr.busy
    /\ LET r == create_voice_profile(wr.src, wr.id) IN
        /\ fs' = r.fs
        /\ last' = [NoCall EXCEPT !.op = "create_voice_profile", !.id = wr.id,
                        !.ok = r.ok, !.msg = r.msg, !.dur = r.dur, !.path = r.path,
                        !.test = wr.src]
    /\ enrolled' = [enrolled EXCEPT ![wr.id] = wr.src]
    /\ wr' = Idle
    /\ UNCHANGED <<verifier, constructed, records, session_active, pending, upl>>

Next ==
    \/ \E i \in StudentIds, c \in EnrollFiles : CreateVoiceProfile(i, c)
    \/ \E i \in StudentIds : ProfileExists(i)
    \/ \E i \in StudentIds : GetProfileInfo(i)
    \/ \E i \in StudentIds : DeleteProfile(i)
    \/ \E refC \in ReferenceChoices, testC \in TestFiles, t \in Thresholds :
          \E l \in LoadChoices :
            \E po \in PrimaryChoices(l, refC, testC), v \in VariationChoices(l, refC, testC) :
                VerifyVoice(refC, testC, t, po, v, l)
    \/ \E blob \in Uploads : ProcessWebAudio(blob)

Spec == Init /\ [][Next]_vars

\* two workers: one enrols while the other reads, deletes or verifies
\* against the stored profiles
NextConc ==
    \/ \E i \in StudentIds, c \in EnrollFiles : CreateVoiceProfile(i, c)
    \/ \E i \in StudentIds : ProfileExists(i)
    \/ \E i \in StudentIds : GetProfileInfo(i)
    \/ \E i \in StudentIds : DeleteProfile(i)
    \/ \E i \in StudentIds, l \in LoadChoices :
          \E po \in {o \in PrimaryChoices(l, FileAt(get_profile_path(i)),
                                           Audio(1, 32000, 16000, 1)) :
                          o.prediction = (o.score > 0)},
             v \in VariationChoices(l, FileAt(get_profile_path(i)), Audio(1, 32000, 16000, 1))
                        \cap {Random(FALSE, 0)} :
            VerifyVoice(FileAt(get_profile_path(i)), Audio(1, 32000, 16000, 1),
                        DEFAULT_THRESHOLD, po, v, l)
    \/ \E i \in StudentIds, c \in EnrollFiles :
          \E p \in partial_writes(torchaudio_save(torchaudio_load(c), torchaudio_load(c).sr)) :
            EnrollBegin(i, c, p)
    \/ EnrollFinish

SpecConc == Init /\ [][NextConc]_vars

\* the service from before its construction: __init__, then calls on it
NextLoad ==
    \/ \E works \in Environments : Construct(works)
    \/ /\ constructed
       /\ \/ \E i \in StudentIds, c \in {Garbage, Audio(1, 320000, 16000, 1)} :
                CreateVoiceProfile(i, c)
          \/ \E i \in StudentIds : DeleteProfile(i)
          \/ \E refC \in {FileAt(get_profile_path(i)) : i \in StudentIds},
                testC \in {Garbage, Audio(1, 32000, 16000, 1)}, l \in LoadChoices :
                \E po \in PrimaryChoices(l, refC, testC), v \in VariationChoices(l, refC, testC) :
                    VerifyVoice(refC, testC, DEFAULT_THRESHOLD, po, v, l)

SpecLoad == InitLoad /\ [][NextLoad]_vars

\* the service as the endpoints use it: uploads in, attendance out
FlowUploads ==
    { Blob(0, {}, NoWave), Blob(7, {}, NoWave),
      Blob(9000, {".webm", ".ogg"}, Wave(2, 220500, 44100, 1)),
      Blob(9000, {".webm", ".wav", ".ogg"}, Wave(1, 16000, 16000, 2)) }
\* the student whose requests are followed
FlowStudents == {"S1"}
FlowThresholdArgs == {ThresholdArg(FALSE, 0), ThresholdArg(TRUE, 0)}
FlowReferences == {Missing} \cup {FileAt(get_profile_path(i)) : i \in FlowStudents}
NextFlow ==
    \/ \E i \in FlowStudents, blob \in FlowUploads : CreateVoiceProfileFromUpload(i, blob)
    \/ \E refC \in FlowReferences, blob \in FlowUploads, arg \in FlowThresholdArgs :
          \E po \in UploadPrimaryChoices(verifier, refC, blob),
             rnd \in UploadVariationChoices(verifier, refC, blob) :
            VerifyVoiceFromUpload(refC, blob, arg, po, rnd)
    \/ \E i \in FlowStudents, blob \in FlowUploads :
          \E po \in UploadPrimaryChoices(verifier, FileAt(get_profile_path(i)), blob),
             rnd \in UploadVariationChoices(verifier, FileAt(get_profile_path(i)), blob) :
            MarkAttendance(i, blob, po, rnd)
    \/ DeactivateSession
    \/ \E i \in FlowStudents : DeleteProfile(i)
    \/ \E i \in FlowStudents, c \in {Garbage, Audio(1, 320000, 16000, 1)} :
          CreateVoiceProfile(i, c)
    \/ \E refC \in FlowReferences,
          testC \in {Missing, Audio(1, 32000, 16000, 1), Audio(1, 320000, 16000, 1)} :
          \E po \in {o \in PrimaryChoices(verifier, refC, testC) :
                          o.prediction = (o.score > 0)},
             rnd \in VariationChoices(verifier, refC, testC)
                        \cap {Random(FALSE, 0), Random(TRUE, ScoreOne \div 10)} :
            VerifyVoice(refC, testC, DEFAULT_THRESHOLD, po, rnd, verifier)

SpecFlow == Init /\ [][NextFlow]_vars

\* attendance with requests served side by side
AttendUploads ==
    { Blob(7, {}, NoWave),
      Blob(9000, {".webm", ".ogg"}, Wave(2, 220500, 44100, 1)),
      Blob(9000, {".webm", ".wav", ".ogg"}, Wave(1, 16000, 16000, 2)) }
NextAttend ==
    \/ \E i \in FlowStudents, blob \in AttendUploads : CreateVoiceProfileFromUpload(i, blob)
    \/ \E i \in FlowStudents : DeleteProfile(i)
    \/ \E w \in Workers, i \in FlowStudents, blob \in AttendUploads :
          \E po \in UploadPrimaryChoices(verifier, FileAt(get_profile_path(i)), blob),
             rnd \in UploadVariationChoices(verifier, FileAt(get_profile_path(i)), blob) :
            MarkAttendanceCheck(w, i, blob, po, rnd)
    \/ \E w \in Workers : MarkAttendanceCommit(w)
    \/ DeactivateSession

SpecAttend == Init /\ [][NextAttend]_vars

\* ------------------------------------------------- the upload directory
\* filename.startswith("profiles")
startswith_profiles(filename) ==
    Len(filename) >= 8 /\ SubSeq(filename, 1, 8) = "profiles"

\* save_uploaded_audio(audio_data, filename): the bytes are written under
\* AUDIO_UPLOAD_DIR; a file that does not validate is unlinked again and the
\* call raises. Without a filename the name is a fresh <uuid4>.wav
SaveUploadedAudio(c, filename) ==
    /\ IF validate_audio_file(c)
       THEN /\ upl' = [upl EXCEPT ![filename] = 0]
            /\ last' = [NoCall EXCEPT !.op = "save_uploaded_audio", !.ok = TRUE,
                            !.path = filename, !.listing = upl]
       ELSE /\ upl' = [upl EXCEPT ![filename] = -1]
            /\ last' = [NoCall EXCEPT !.op = "save_uploaded_audio", !.raised = TRUE,
                            !.path = filename, !.msg = "Invalid audio file",
                            !.listing = upl]
    /\ UNCHANGED <<fs, verifier, enrolled, wr, constructed, records, session_active,
                   pending>>

\* an hour passes: time.time() - os.path.getmtime(file_path) grows
Tick ==
    /\ \E f \in UploadNames : upl[f] # -1 /\ upl[f] < MaxAge
    /\ upl' = [f \in UploadNames |->
                 IF upl[f] = -1 THEN -1 ELSE Min(upl[f] + 1, MaxAge)]
    /\ UNCHANGED <<fs, verifier, enrolled, wr, last, constructed, records,
                   session_active, pending>>

\* cleanup_temp_files(max_age_hours) on the listing u of AUDIO_UPLOAD_DIR: the
\* listing afterwards. The directory "profiles" is skipped by its name, and
\* it is no regular file
cleanup_temp_files(u, max_age_hours) ==
    [f \in UploadNames |->
        IF startswith_profiles(f) THEN u[f]
        ELSE IF u[f] # -1 /\ u[f] > max_age_hours THEN -1
        ELSE u[f]]

CleanupTempFiles(max_age_hours) ==
    /\ upl' = cleanup_temp_files(upl, max_age_hours)
    /\ last' = [NoCall EXCEPT !.op = "cleanup_temp_files", !.ok = TRUE,
                    !.age = max_age_hours, !.listing = upl]
    /\ UNCHANGED <<fs, verifier, enrolled, wr, constructed, records, session_active,
                   pending>>

NextFiles ==
    \/ \E i \in FlowStudents, blob \in FlowUploads : CreateVoiceProfileFromUpload(i, blob)
    \/ \E refC \in FlowReferences, blob \in FlowUploads :
          \E po \in UploadPrimaryChoices(verifier, refC, blob),
             rnd \in UploadVariationChoices(verifier, refC, blob) :
            VerifyVoiceFromUpload(refC, blob, ThresholdArg(FALSE, 0), po, rnd)
    \/ \E c \in {Garbage, Audio(1, 320000, 16000, 1)},
          filename \in UploadNames \ {ProcessedName} : SaveUploadedAudio(c, filename)
    \/ Tick
    \/ \E max_age_hours \in 0..(MaxAge - 1) : CleanupTempFiles(max_age_hours)

SpecFiles == Init /\ [][NextFiles]_vars

\* ----------------------------------------- construction, then the uploads
NextAttempts ==
    \/ \E works \in Environments : Construct(works)
    \/ /\ constructed
       /\ \/ \E blob \in Uploads : ProcessWebAudio(blob)
          \/ \E i \in FlowStudents, blob \in FlowUploads :
                CreateVoiceProfileFromUpload(i, blob)
          \/ \E refC \in FlowReferences, blob \in FlowUploads :
                \E po \in UploadPrimaryChoices(verifier, refC, blob),
                   rnd \in UploadVariationChoices(verifier, refC, blob) :
                  VerifyVoiceFromUpload(refC, blob, ThresholdArg(FALSE, 0), po, rnd)

SpecAttempts == InitLoad /\ [][NextAttempts]_vars

\* ------------------------------------------------- the HTTP entry points
\* accepted_types of POST /student/voice-profile
accepted_types ==
    {"audio/wav", "audio/mpeg", "audio/mp3", "audio/webm", "audio/mp4", "audio/ogg",
     "audio/x-wav", "audio/wave"}
\* the list of POST /voice/enroll and POST /voice/verify
voice_accepted_types == {"audio/wav", "audio/mpeg", "audio/mp3", "audio/webm"}
\* audio_file.content_type as clients declare it
ContentTypes == {"audio/webm", "audio/ogg", "video/webm"}

\* the part the two enrolment entry points share: the call of
\* create_voice_profile_from_upload and the response; the VoiceProfile row
\* is not followed
EnrollUpload(op, student_id, blob, ctype) ==
    LET r == create_voice_profile_from_upload(blob, student_id) IN
    /\ fs' = r.fs
    /\ enrolled' = IF r.ok THEN [enrolled EXCEPT ![student_id] = r.processed]
                   ELSE enrolled
    /\ upl' = leave(upl, r.left)
    /\ last' = [NoCall EXCEPT !.op = op, !.id = student_id, !.ok = r.ok,
                    !.msg = r.msg, !.path = r.path, !.test = r.processed,
                    !.placeholder = r.placeholder, !.len = blob.len,
                    !.readable = blob.readable, !.left = r.left,
                    !.ctype = ctype, !.processed = TRUE]

\* POST /student/voice-profile: a content type outside accepted_types is
\* logged, the upload is processed all the same
StudentCreateVoiceProfile(student_id, blob, ctype) ==
    /\ ~wr.busy
    /\ EnrollUpload("student.create_voice_profile", student_id, blob, ctype)
    /\ UNCHANGED <<verifier, wr, constructed, records, session_active, pending>>

\* POST /voice/enroll
EnrollVoice(student_id, blob, ctype) ==
    /\ ~wr.busy
    /\ IF ctype \notin voice_accepted_types
       THEN /\ last' = [NoCall EXCEPT !.op = "voice.enroll_voice", !.id = student_id,
                            !.ctype = ctype, !.len = blob.len,
                            !.readable = blob.readable,
                            !.msg = "Invalid audio file format"]
            /\ UNCHANGED <<fs, enrolled, upl>>
       ELSE EnrollUpload("voice.enroll_voice", student_id, blob, ctype)
    /\ UNCHANGED <<verifier, wr, constructed, records, session_active, pending>>

\* POST /voice/verify; the VoiceVerification row is not followed
VerifyVoiceEndpoint(student_id, blob, ctype, po, rnd) ==
    /\ IF ~session_active
       THEN /\ last' = [NoCall EXCEPT !.op = "voice.verify_voice", !.id = student_id,
                            !.ctype = ctype, !.msg = "Session is not active"]
            /\ UNCHANGED upl
       ELSE IF ~profile_exists(student_id)
       THEN /\ last' = [NoCall EXCEPT !.op = "voice.verify_voice", !.id = student_id,
                            !.ctype = ctype,
                            !.msg = "Voice profile not found. Please enroll first."]
            /\ UNCHANGED upl
       ELSE IF ctype \notin voice_accepted_types
       THEN /\ last' = [NoCall EXCEPT !.op = "voice.verify_voice", !.id = student_id,
                            !.ctype = ctype, !.len = blob.len,
                            !.readable = blob.readable,
                            !.msg = "Invalid audio file format"]
            /\ UNCHANGED upl
       ELSE LET reference_file == FileAt(get_profile_path(student_id))
                r == verify_voice_from_upload(verifier, reference_file, blob,
                                              default_threshold(verifier), po, rnd)
            IN  /\ upl' = leave(upl, r.left)
                /\ last' = [NoCall EXCEPT !.op = "voice.verify_voice",
                                !.id = student_id, !.ok = r.is_match,
                                !.score = r.score, !.is_match = r.is_match,
                                !.msg = r.msg, !.called = r.called,
                                !.thr = default_threshold(verifier),
                                !.defaulted = TRUE, !.ref = reference_file,
                                !.test = r.processed, !.placeholder = r.placeholder,
                                !.len = blob.len, !.readable = blob.readable,
                                !.fault = r.fault, !.bscore = r.bscore,
                                !.left = r.left, !.ctype = ctype, !.processed = TRUE]
    /\ UNCHANGED <<fs, verifier, enrolled, wr, constructed, records, session_active,
                   pending>>

NextEntry ==
    \/ \E i \in FlowStudents, blob \in AttendUploads, ctype \in ContentTypes :
          StudentCreateVoiceProfile(i, blob, ctype)
    \/ \E i \in FlowStudents, blob \in AttendUploads, ctype \in ContentTypes :
          EnrollVoice(i, blob, ctype)
    \/ \E i \in FlowStudents, blob \in AttendUploads, ctype \in ContentTypes :
          \E po \in UploadPrimaryChoices(verifier, FileAt(get_profile_path(i)), blob),
             rnd \in UploadVariationChoices(verifier, FileAt(get_profile_path(i)), blob) :
            VerifyVoiceEndpoint(i, blob, ctype, po, rnd)
    \/ \E i \in FlowStudents, blob \in AttendUploads :
          \E po \in UploadPrimaryChoices(verifier, FileAt(get_profile_path(i)), blob),
             rnd \in UploadVariationChoices(verifier, FileAt(get_profile_path(i)), blob) :
            MarkAttendance(i, blob, po, rnd)
    \/ \E i \in FlowStudents : DeleteProfile(i)
    \/ DeactivateSession

SpecEntry == Init /\ [][NextEntry]_vars

\* ------------------------------------- the functions of MockVoiceVerifier
\* fingerprints as calculate_speaker_similarity may be handed them
\* a recording that differs from every other one in every feature
FarFeatures == [k \in DOMAIN SigFeatures(0) |-> 5000000]
Fingerprints ==
    {NoneFp, [ok |-> TRUE, f |-> FarFeatures, finite |-> TRUE]}
        \cup {[ok |-> TRUE, f |-> SigFeatures(sig), finite |-> TRUE] : sig \in 0..3}
\* values of random.uniform(-0.05, 0.05)
SimVariations ==
    {0 - MAX_VARIATION, 0 - MAX_VARIATION \div 2, 0, MAX_VARIATION \div 2, MAX_VARIATION}
\* files get_detailed_fingerprint may be pointed at: no file, no audio, no
\* samples, less than a chunk, one chunk, silence, speech
FingerprintFiles ==
    {Missing, Garbage, Audio(1, 0, 16000, 1), Audio(1, 800, 16000, 1),
     Audio(1, 1600, 16000, 1), Audio(1, 32000, 16000, SilentSig),
     Audio(2, 32000, 16000, SilentSig), Audio(1, 32000, 16000, 1),
     Audio(1, 80000, 16000, 2), Audio(1, 15, 15, 1)}

CalculateSpeakerSimilarity(fp1, fp2, variation) ==
    /\ last' = [NoCall EXCEPT !.op = "calculate_speaker_similarity", !.ok = TRUE,
                    !.fp1 = fp1, !.fp2 = fp2, !.variation = variation,
                    !.score = calculate_speaker_similarity(fp1, fp2, variation),
                    !.bscore = IF fp1.ok /\ fp2.ok THEN base_similarity(fp1, fp2)
                               ELSE 0]
    /\ UNCHANGED <<fs, verifier, enrolled, wr, constructed, records, session_active,
                   pending, upl>>

GetDetailedFingerprint(c) ==
    /\ last' = [NoCall EXCEPT !.op = "get_detailed_fingerprint", !.ref = c,
                    !.fp1 = get_detailed_fingerprint(c),
                    !.ok = get_detailed_fingerprint(c).ok]
    /\ UNCHANGED <<fs, verifier, enrolled, wr, constructed, records, session_active,
                   pending, upl>>

NextMock ==
    \/ \E fp1 \in Fingerprints, fp2 \in Fingerprints, variation \in SimVariations :
          CalculateSpeakerSimilarity(fp1, fp2, variation)
    \/ \E c \in FingerprintFiles : GetDetailedFingerprint(c)

SpecMock == Init /\ [][NextMock]_vars

\* ================================================================== claims
\* what validate_audio_file is documented to reject, stated on the file itself
Rejected(c) == c.kind # "audio" \/ c.ch = 0 \/ c.n * 10 < 20 * c.sr

\* C1: whenever the reference file or the test file of a verify_voice call is
\* missing, undecodable, without channels or shorter than 2.0 s, the call
\* returns score 0.0 and is_match false with an invalid-audio message, and the
\* backend's verify_files has not been called.
C1_InvalidAudioFailsClosed ==
    (last.op = "verify_voice" /\ (Rejected(last.ref) \/ Rejected(last.test)))
        => /\ last.score = 0
           /\ ~last.is_match
           /\ last.msg \in {"Invalid reference audio file", "Invalid test audio file"}
           /\ ~last.called

C1_Witness ==
    /\ last.op = "verify_voice"
    /\ ~Rejected(last.ref)
    /\ last.test.kind = "audio" /\ last.test.ch > 0 /\ last.test.n < 2 * last.test.sr
    /\ last.msg = "Invalid test audio file"
    /\ ~last.called

\* C2: when both files are valid and the backend returned a score, the
\* returned score is the backend's and is_match is exactly score > threshold
\* (strictly), whatever prediction flag the backend returned.
C2_StrictThreshold ==
    (last.op = "verify_voice" /\ ~Rejected(last.ref) /\ ~Rejected(last.test) /\ last.ok)
        => /\ last.called
           /\ last.score = last.bscore
           /\ last.is_match = (last.bscore > last.thr)
           /\ (last.bscore = last.thr => ~last.is_match)

C2_Witness ==
    /\ last.op = "verify_voice"
    /\ last.called /\ last.ok
    /\ last.score = last.thr
    /\ last.prediction
    /\ ~last.is_match

\* C3: with the fallback verifier active, a verify_voice call that reaches the
\* backend, in which fingerprint extraction gives None for the reference or
\* the test file and verify_files returns from its try block, returns score
\* exactly 0.0, and is_match false whenever the threshold is >= 0.
C3_FallbackFailsClosed ==
    (/\ last.op = "verify_voice"
     /\ verifier = "MockVoiceVerifier"
     /\ last.called
     /\ ~last.fault
     /\ (~get_detailed_fingerprint(last.ref).ok \/ ~get_detailed_fingerprint(last.test).ok))
        => /\ last.score = 0
           /\ (last.thr >= 0 => ~last.is_match)

C3_Witness ==
    /\ last.op = "verify_voice"
    /\ verifier = "MockVoiceVerifier"
    /\ last.called
    /\ ~last.fault
    /\ ~get_detailed_fingerprint(last.test).ok
    /\ last.thr >= 0
    /\ last.score = 0 /\ ~last.is_match

C5_ExistsAfterEnrollGoneAfterDelete ==
    /\ (last.op = "create_voice_profile" /\ last.ok) => profile_exists(last.id)
    /\ last.op = "delete_profile"
        => (~profile_exists(last.id) /\ ~get_profile_info(last.id).exists)

C5_Witness ==
    /\ last.op = "delete_profile"
    /\ last.ok
    /\ last.before.kind = "audio"
    /\ ~profile_exists(last.id)
    /\ \E i \in StudentIds : i # last.id /\ profile_exists(i)

\* C6: the profile directory holds nothing but the files at
\* get_profile_path(i), at most one per identity: none for an identity with no
\* successful enrol since its last delete, and otherwise a file with the
\* channels, frames, rate and samples of the file given to its most recent
\* successful enrol.
C6_OneReferencePerIdentity ==
    /\ DOMAIN fs \subseteq {get_profile_path(i) : i \in StudentIds}
    /\ \A i \in StudentIds :
        IF enrolled[i] = Missing
        THEN get_profile_path(i) \notin DOMAIN fs
        ELSE /\ get_profile_path(i) \in DOMAIN fs
             /\ fs[get_profile_path(i)].kind = "audio"
             /\ fs[get_profile_path(i)].ch = enrolled[i].ch
             /\ fs[get_profile_path(i)].n = enrolled[i].n
             /\ fs[get_profile_path(i)].sr = enrolled[i].sr
             /\ fs[get_profile_path(i)].sig = enrolled[i].sig

C6_Witness ==
    /\ last.op = "create_voice_profile"
    /\ last.ok
    /\ last.before.kind = "audio"
    /\ last.before.sig # last.test.sig
    /\ fs[get_profile_path(last.id)].sig = last.test.sig
    /\ \E i \in StudentIds :
        i # last.id /\ enrolled[i] # Missing /\ enrolled[i].sig # last.test.sig

\* C7: a profile_exists call answers true only if, at the time of the call,
\* the reference file is present, decodable, has a channel and lasts at least
\* 2.0 s; checked while another worker may be in the middle of writing it.
C7_ExistsOnlyIfUsable ==
    (last.op = "profile_exists" /\ last.ok)
        => /\ last.ref.kind = "audio"
           /\ last.ref.ch > 0
           /\ last.ref.n >= 2 * last.ref.sr

C7_Witness ==
    /\ last.op = "profile_exists"
    /\ ~last.ok
    /\ last.ref.kind \in {"garbage", "audio"}
    /\ Rejected(last.ref)

\* C8: delete_profile returns true exactly when the reference file was there,
\* the file is gone afterwards and no other file changes; a delete_profile
\* that directly follows a delete_profile of the same identity returns false
\* and changes nothing.
C8_DeleteIdempotent ==
    [][last'.op = "delete_profile"
        => /\ last'.ok = (get_profile_path(last'.id) \in DOMAIN fs)
           /\ get_profile_path(last'.id) \notin DOMAIN fs'
           /\ \A q \in DOMAIN fs \ {get_profile_path(last'.id)} :
                q \in DOMAIN fs' /\ fs'[q] = fs[q]
           /\ DOMAIN fs' \subseteq DOMAIN fs
           /\ (last'.again # "no" => (~last'.ok /\ fs' = fs))]_vars

C8_Witness ==
    /\ last.op = "delete_profile"
    /\ last.again = "after_true"
    /\ ~last.ok
    /\ fs # << >>

\* C9: no profile_exists, get_profile_info or verify_voice call finds a
\* partially written reference file at a profile path while an enrol of that
\* identity is in progress on another worker.
C9_NoPartialFileObserved ==
    last.op \in {"profile_exists", "get_profile_info", "verify_voice"}
        => ~last.ref.partial

\* C10: the file process_web_audio returns has one channel, rate 16000 Hz and
\* max(n, 32000) frames, n being the frames of the decoded audio after
\* resampling to 16000 Hz; decoded audio shorter than 2.0 s gives exactly
\* 32000 frames.
C10_NormalizedOutput ==
    (last.op = "process_web_audio" /\ last.ok)
        => LET g == GCD(last.test.sr, 16000)
               n == IF last.test.sr = 16000 THEN last.test.n
                    ELSE (last.test.n * (16000 \div g) + (last.test.sr \div g) - 1)
                            \div (last.test.sr \div g)
           IN  /\ last.out.kind = "audio"
               /\ last.out.ch = 1
               /\ last.out.sr = 16000
               /\ last.out.n = (IF n > 32000 THEN n ELSE 32000)
               /\ (last.test.n < 2 * last.test.sr => last.out.n = 32000)

C10_Witness ==
    /\ last.op = "process_web_audio"
    /\ last.ok
    /\ last.test.sr # 16000
    /\ last.test.n > 0 /\ last.test.n < 2 * last.test.sr
    /\ last.out.n = 32000

C16_DecoderOrder ==
    (last.op = "process_web_audio" /\ last.len > 0)
        => LET order == <<".webm", ".wav", ".ogg", ".mp3", ".m4a">>
               n == Len(last.tried)
           IN  /\ n \in 1..5
               /\ \A k \in 1..n : last.tried[k] = order[k]
               /\ \A k \in 1..(n - 1) : last.tried[k] \notin last.readable
               /\ (last.tried[n] \notin last.readable) => n = 5
               /\ last.placeholder = (n = 5 /\ last.tried[5] \notin last.readable)
               /\ last.placeholder =>
                    (last.test.n = 160000 /\ last.test.sr = 16000 /\ last.test.ch = 1)
               /\ ~last.raised /\ last.out.kind = "audio"

C16_Witness ==
    /\ last.op = "process_web_audio"
    /\ last.tried = <<".webm", ".wav", ".ogg", ".mp3">>
    /\ ~last.placeholder
    /\ ".m4a" \in last.readable

\* C17: _load_model calls the strategies in the order custom cache, temporary
\* directory, library default, local directory; every strategy called before
\* the last one failed and none is called after one that loads; the verifier
\* is the embedding model when the last one called loaded it, and the
\* MockVoiceVerifier only when all four were called and failed.
C17_LoadOrder ==
    last.op = "__init__"
        => LET order == <<"_load_with_custom_cache", "_load_with_temp_dir",
                          "_load_default", "_load_from_local">>
               n == Len(last.tried)
           IN  /\ n \in 1..4
               /\ \A k \in 1..n : last.tried[k] = order[k]
               /\ \A k \in 1..(n - 1) : last.tried[k] \notin last.readable
               /\ (last.tried[n] \in last.readable) => verifier = "SpeakerRecognition"
               /\ (last.tried[n] \notin last.readable)
                    => (n = 4 /\ verifier = "MockVoiceVerifier")
               /\ verifier = "MockVoiceVerifier" => last.readable = {}

C17_Witness ==
    /\ last.op = "__init__"
    /\ last.tried = <<"_load_with_custom_cache", "_load_with_temp_dir", "_load_default">>
    /\ "_load_from_local" \in last.readable
    /\ verifier = "SpeakerRecognition"

\* C18: once __init__ has returned, self.verifier is not None, no enrol,
\* verify or delete changes it, the lazy-load step of verify_voice does not
\* run and verify_voice does not answer that the model could not be loaded.
C18_VerifierFixedAfterConstruction ==
    /\ [](constructed => /\ verifier # "None"
                         /\ last.op = "verify_voice"
                              => /\ ~last.lazy
                                 /\ last.msg # "Voice recognition model could not be loaded")
    /\ [][constructed => verifier' = verifier]_vars

C18_Witness ==
    /\ constructed
    /\ last.op = "verify_voice"
    /\ last.called
    /\ verifier = "MockVoiceVerifier"
    /\ \E i \in StudentIds : os_path_exists(get_profile_path(i))

\* C19: whenever an error occurs while the backend's verify_files runs or in
\* verify_voice around it, verify_voice returns score 0 and is_match false,
\* whatever the threshold.
C19_ScoringErrorFailsClosed ==
    (last.op = "verify_voice" /\ last.called /\ last.fault)
        => /\ last.score = 0
           /\ ~last.is_match

\* C12: whenever the test tone was substituted for an upload no decoder could
\* read, what create_voice_profile_from_upload or verify_voice_from_upload
\* returns differs from what the same call returns for every upload that a
\* decoder did read.
C12_PlaceholderDistinguishable ==
    /\ (last.op = "create_voice_profile_from_upload" /\ last.placeholder)
        => \A blob \in FlowUploads :
              (blob.len > 0 /\ first_decoder(blob) # 0)
                => EnrollResult(create_voice_profile_from_upload(blob, last.id))
                     # [ok |-> last.ok, msg |-> last.msg, path |-> last.path]
    /\ (last.op = "verify_voice_from_upload" /\ last.placeholder)
        => \A blob \in FlowUploads :
              (blob.len > 0 /\ first_decoder(blob) # 0)
                => \A po \in UploadPrimaryChoices(verifier, last.ref, blob),
                      rnd \in UploadVariationChoices(verifier, last.ref, blob) :
                      VerifyResult(verify_voice_from_upload(verifier, last.ref, blob,
                                                            last.thr, po, rnd))
                        # [score |-> last.score, is_match |-> last.is_match,
                           msg |-> last.msg]

\* C13: verify_voice, verify_voice_from_upload, create_voice_profile and
\* create_voice_profile_from_upload do not raise; when the upload is empty, a
\* file is missing or undecodable, or the backend has an error, verification
\* returns (0.0, False, message) and enrolment returns (False, message) and
\* leaves the profile file as it was.
C13_FailuresAreStructured ==
    /\ last.op \in {"verify_voice", "verify_voice_from_upload"}
        => /\ ~last.raised
           /\ (\/ last.op = "verify_voice_from_upload" /\ last.len = 0
               \/ last.ref.kind # "audio"
               \/ last.test.kind # "audio"
               \/ last.fault)
                => (last.score = 0 /\ ~last.is_match /\ last.msg # "")
    /\ last.op \in {"create_voice_profile", "create_voice_profile_from_upload"}
        => /\ ~last.raised
           /\ (\/ last.op = "create_voice_profile_from_upload" /\ last.len = 0
               \/ last.test.kind # "audio")
                => /\ ~last.ok /\ last.msg # ""
                   /\ FileAt(get_profile_path(last.id)) = last.before

\* C14 (as stated): a verification called without a threshold while the
\* fallback verifier is active runs with a threshold strictly below the one
\* such a call runs with while the embedding model is active.
C14_PrimaryDefaultHigher ==
    (/\ last.op \in {"verify_voice_from_upload", "mark_attendance"}
     /\ last.defaulted
     /\ verifier = "MockVoiceVerifier")
        => last.thr < default_threshold("SpeakerRecognition")

\* C14 (amended): a verification called without a threshold runs with 0.6
\* whichever backend is active, so the default under the fallback verifier
\* equals the default under the embedding model, and the decision is
\* score > 0.6.
C14_OneDefaultThreshold ==
    (last.op \in {"verify_voice_from_upload", "mark_attendance"} /\ last.defaulted)
        => /\ last.thr = (6 * ScoreOne) \div 10
           /\ last.thr = default_threshold("SpeakerRecognition")
           /\ last.thr = default_threshold("MockVoiceVerifier")
           /\ last.is_match = (last.called /\ last.score > (6 * ScoreOne) \div 10)

C14_Witness ==
    /\ last.op = "verify_voice_from_upload"
    /\ last.defaulted
    /\ verifier = "MockVoiceVerifier"
    /\ last.called
    /\ last.thr = (6 * ScoreOne) \div 10

\* C15: with the fallback verifier active, verify_voice of a valid recording
\* against itself, verify_files returning from its try block, gives a score
\* between 0.95 and 1.0 and is a match under the threshold 0.6.
C15_FallbackSelfSimilarity ==
    (/\ last.op = "verify_voice"
     /\ verifier = "MockVoiceVerifier"
     /\ last.called /\ ~last.fault
     /\ last.ref = last.test)
        => /\ last.score >= (95 * ScoreOne) \div 100
           /\ last.score <= ScoreOne
           /\ last.thr = DEFAULT_THRESHOLD => last.is_match

\* C20: an attendance upload that no decoder reads gives no positive
\* decision: verify_voice_from_upload returns is_match false and
\* mark_attendance does not add a 'present' row, whatever profile is stored.
C20_UndecodableNeverPresent ==
    (/\ last.op \in {"verify_voice_from_upload", "mark_attendance"}
     /\ last.readable = {}
     /\ last.placeholder \/ (last.op = "verify_voice_from_upload" /\ last.len = 0))
        => /\ ~last.is_match
           /\ last.status # "present"

\* C21: whatever mark_attendance requests have been served, one after the
\* other or side by side, the session holds at most one AttendanceRecord of
\* each student.
C21_OneRecordPerStudent ==
    \A i \in StudentIds : Len(records[i]) <= 1

\* C22: an AttendanceRecord is added only while the session is active, also
\* when deactivate_session has run since the request checked is_active.
C22_NoRecordAfterDeactivation ==
    [][records' # records => session_active]_vars

\* C23: the row mark_attendance adds is 'present' exactly when the
\* verification returned is_match true and 'absent' otherwise; a row, once
\* added, is never changed or removed; and a mark_attendance that finds a row
\* of the student for the session is answered with an error, runs no
\* verification and adds nothing.
C23_StatusFollowsDecisionAndStays ==
    /\ [](last.op = "mark_attendance"
            => /\ last.status \in {"", "present", "absent"}
               /\ last.status = "present" => last.is_match
               /\ last.status = "absent" => ~last.is_match
               /\ last.status # "" =>
                    (/\ Len(records[last.id]) = last.rows + 1
                     /\ records[last.id][last.rows + 1] = last.status)
               /\ (last.status = "" /\ last.rows > 0) => ~last.called)
    /\ [][/\ \A i \in StudentIds :
                /\ Len(records'[i]) >= Len(records[i])
                /\ SubSeq(records'[i], 1, Len(records[i])) = records[i]
          /\ \A w \in Workers :
                (~pending[w].busy /\ pending'[w].busy)
                    => records[pending'[w].id] = << >>]_vars

C23_Witness ==
    /\ last.op = "mark_attendance"
    /\ last.status = ""
    /\ last.rows = 1
    /\ records[last.id] = <<"absent">>
    /\ last.msg = "Attendance already marked for this session"

C28_RemovesExactlyTheOldFiles ==
    [][(last'.op = "cleanup_temp_files" /\ last' # last)
         => /\ fs' = fs
            /\ \A f \in UploadNames :
                 upl'[f] = IF upl[f] # -1 /\ upl[f] > last'.age THEN -1 ELSE upl[f]]_vars

\* C26: the similarity of the fallback verifier lies in [0, 1]; the weights
\* of its features sum to 1, and when both fingerprints exist it is within
\* 0.05 of the unperturbed weighted sum of the per-feature similarities.
C26_FallbackSimilarityBounded ==
    /\ TotalWeight(Len(features)) = 100
    /\ last.op = "calculate_speaker_similarity"
         => /\ 0 <= last.score /\ last.score <= ScoreOne
            /\ 0 <= last.bscore /\ last.bscore <= ScoreOne
            /\ Abs(last.variation) <= MAX_VARIATION
            /\ Abs(last.score - last.bscore) <= MAX_VARIATION
            /\ (last.fp1.ok /\ last.fp2.ok)
                 => last.score = Max(0, Min(ScoreOne, last.bscore + last.variation))

C26_Witness ==
    /\ last.op = "calculate_speaker_similarity"
    /\ last.fp1.ok /\ last.fp2.ok
    /\ last.bscore = ScoreOne
    /\ last.variation = MAX_VARIATION
    /\ last.score = ScoreOne

C29_ContentTypeNeverDecides ==
    (/\ last.op \in {"student.create_voice_profile", "voice.enroll_voice",
                     "voice.verify_voice"}
     /\ last.msg \notin {"Session is not active",
                         "Voice profile not found. Please enroll first."})
        => last.processed

\* C30: a call of load_model calls each of the four loading strategies at
\* most once, and a call of process_web_audio, on its own or inside an
\* enrolment or a verification, makes each of the five decoding attempts at
\* most once: no attempt is repeated.
C30_EachAttemptAtMostOnce ==
    /\ last.op = "__init__"
         => /\ Len(last.tried) <= Len(loading_strategies)
            /\ \A j, k \in 1..Len(last.tried) : j # k => last.tried[j] # last.tried[k]
            /\ \A k \in 1..Len(last.tried) :
                 \E j \in 1..Len(loading_strategies) : last.tried[k] = loading_strategies[j]
    /\ last.op \in {"process_web_audio", "create_voice_profile_from_upload",
                    "verify_voice_from_upload"}
         => /\ Len(last.tried) <= Len(decoders)
            /\ \A j, k \in 1..Len(last.tried) : j # k => last.tried[j] # last.tried[k]
            /\ \A k \in 1..Len(last.tried) :
                 \E j \in 1..Len(decoders) : last.tried[k] = decoders[j]

C30_Witness ==
    /\ last.op = "create_voice_profile_from_upload"
    /\ Len(last.tried) = Len(decoders)
    /\ verifier = "MockVoiceVerifier"
    /\ constructed
====
